---------------------------- MODULE Spec2Model ----------------------------
(***************************************************************************)
(* Model of products/static/products/js/products.js: the DokanCart and     *)
(* DokanWishlist collections and their localStorage persistence.           *)
(*                                                                         *)
(* JavaScript values are tagged records, so that NaN, null and undefined   *)
(* are values of their own.  An object held in memory is a record over the *)
(* fields its class writes; a field holding Undefined stands both for a    *)
(* property set to undefined and for a missing property (reading either    *)
(* gives undefined).  A stored JSON text is the sequence of its objects,   *)
(* each a function from the keys present in the text to JSON values.       *)
(***************************************************************************)
EXTENDS Integers, Sequences, FiniteSets

VARIABLES cartItems, wishlistItems, storage, lastOp, lastWishOp

\* the product data of the last addToCart call
VARIABLE lastArgs

\* the page of the DokanStore: the text of the .cart-count and
\* .wishlist-count elements, the add-to-cart buttons, the pending 1-second
\* timers of handleAddToCart, the notifications in the body, the pending
\* 3-second timers of showToast and the value of the search form's q input
VARIABLES cartBadge, wishlistBadge, buttons, cartTimers, toasts, toastTimers,
          searchQuery

\* the items of a DokanCart constructed on the same storage by another page
VARIABLE otherCartItems

page == <<cartBadge, wishlistBadge, buttons, cartTimers, toasts, toastTimers,
          searchQuery>>

vars == <<cartItems, wishlistItems, storage, lastOp, lastWishOp, lastArgs,
          page, otherCartItems>>

(***************************** bounds ***************************************)
\* largest quantity a call passes, and the largest a row may reach
MaxQty == 2

\* most handleAddToCart timers pending at a time
MaxPending == 2

\* most showToast timers pending at a time
MaxToasts == 2

\* longest text typed into the search field
MaxQueryLen == 2

(************************** JavaScript values *******************************)
Num(n) == [type |-> "number", val |-> n]
Str(s) == [type |-> "string", val |-> s]
NaN == [type |-> "NaN"]
Null == [type |-> "null"]
Undefined == [type |-> "undefined"]
Bool(b) == [type |-> "boolean", val |-> b]

IsNum(v) == v.type = "number"

\* ToNumber on the values that reach arithmetic here
ToNumber(v) ==
    CASE v.type = "number" -> v
      [] v.type = "NaN" -> NaN
      [] v.type = "null" -> Num(0)
      [] v.type = "undefined" -> NaN

\* a + b on numeric operands
JsAdd(a, b) ==
    IF IsNum(ToNumber(a)) /\ IsNum(ToNumber(b))
    THEN Num(ToNumber(a).val + ToNumber(b).val)
    ELSE NaN

\* a * b
JsMul(a, b) ==
    IF IsNum(ToNumber(a)) /\ IsNum(ToNumber(b))
    THEN Num(ToNumber(a).val * ToNumber(b).val)
    ELSE NaN

\* a <= b
JsLeq(a, b) ==
    IsNum(ToNumber(a)) /\ IsNum(ToNumber(b)) /\ ToNumber(a).val <= ToNumber(b).val

\* a === b
JsStrictEq(a, b) == a = b /\ a # NaN

\* the decimal digits of a natural number
RECURSIVE Decimal(_)
Decimal(n) ==
    IF n < 10
    THEN <<"0", "1", "2", "3", "4", "5", "6", "7", "8", "9">>[n + 1]
    ELSE Decimal(n \div 10) \o Decimal(n % 10)

\* String(v), as the assignment to textContent converts a number
JsString(v) ==
    CASE v.type = "number" ->
            IF v.val < 0 THEN Str("-" \o Decimal(0 - v.val)) ELSE Str(Decimal(v.val))
      [] v.type = "NaN" -> Str("NaN")
      [] v.type = "string" -> v

(****************************** inputs **************************************)
ProductIds == {Str("p1"), Str("p2"), Str("p3")}

\* the addToCart calls made: the product data passed (name, price as
\* parseFloat of the data attribute gives it, NaN when it does not parse,
\* image) and what new Date().toISOString() reads during the call
CartCalls ==
    { [productId |-> Str("p1"), productName |-> Str("Widget"), price |-> Num(2),
       image |-> Str(""), now |-> Str("t1")],
      [productId |-> Str("p1"), productName |-> Str("Widget v2"), price |-> Num(5),
       image |-> Str("w.png"), now |-> Str("t2")],
      [productId |-> Str("p2"), productName |-> Str("Gadget"), price |-> Num(3),
       image |-> Str("g.png"), now |-> Str("t1")],
      [productId |-> Str("p3"), productName |-> Str("Gizmo"), price |-> NaN,
       image |-> Str(""), now |-> Str("t2")] }

\* the addToWishlist calls made; the page's global entry point passes the
\* productId alone
WishlistCalls ==
    { [productId |-> Str("p1"), productName |-> Str("Widget"), price |-> Num(2),
       image |-> Str(""), now |-> Str("t1")],
      [productId |-> Str("p1"), productName |-> Undefined, price |-> Undefined,
       image |-> Str(""), now |-> Str("t2")],
      [productId |-> Str("p2"), productName |-> Str("Gadget"), price |-> Num(3),
       image |-> Str("g.png"), now |-> Str("t1")],
      [productId |-> Str("p3"), productName |-> Undefined, price |-> Undefined,
       image |-> Str(""), now |-> Str("t2")] }

QtyArgs == (0 - 1) .. MaxQty

\* the add-to-cart buttons of the page
Buttons == {"b1", "b2"}

\* the data attributes of the buttons; b1 carries no data-image
Dataset ==
    [b \in Buttons |->
        IF b = "b1"
        THEN [productId |-> Str("p1"), productName |-> Str("Widget"),
              price |-> Str("2"), image |-> Undefined]
        ELSE [productId |-> Str("p2"), productName |-> Str("Gadget"),
              price |-> Str("3"), image |-> Str("g.png")]]

\* what new Date().toISOString() reads during a call made from the page
PageClock == Str("t1")

\* the characters typed into the search field, and the ones trim() strips
Chars == {" ", "a"}
Whitespace == {" ", "\t", "\n"}

RECURSIVE SeqsUpTo(_)
\* the texts of at most n characters
SeqsUpTo(n) ==
    IF n = 0 THEN {<<>>}
    ELSE SeqsUpTo(n - 1) \cup
         {Append(q, c) : q \in {r \in SeqsUpTo(n - 1) : Len(r) = n - 1}, c \in Chars}

Queries == SeqsUpTo(MaxQueryLen)

\* the content of an add-to-cart button as the template renders it, and the
\* content handleAddToCart gives it while loading
IdleHTML == Str("Add to Cart")
LoadingHTML == Str("<span class=\"spinner-border spinner-border-sm me-2\"></span>Adding...")

(******************************* JSON ***************************************)
CartFields == {"productId", "productName", "price", "quantity", "image", "addedAt"}
WishlistFields == {"productId", "productName", "price", "image", "addedAt"}

\* JSON.stringify of one value inside an object: NaN is written as null
StringifyValue(v) == IF v = NaN THEN Null ELSE v

\* JSON.stringify of an object: properties holding undefined are left out
StringifyObject(o) ==
    [k \in {f \in DOMAIN o : o[f] # Undefined} |-> StringifyValue(o[k])]

JSONstringify(items) == [i \in 1..Len(items) |-> StringifyObject(items[i])]

\* JSON.parse of one object, read through the fields of its class
ParseObject(j, fields) ==
    [k \in fields |-> IF k \in DOMAIN j THEN j[k] ELSE Undefined]

JSONparse(text, fields) == [i \in 1..Len(text) |-> ParseObject(text[i], fields)]

(***************************** localStorage *********************************)
CartKey == "dokan_cart"
WishlistKey == "dokan_wishlist"

Absent == [present |-> FALSE]
Stored(text) == [present |-> TRUE, text |-> text]

\* localStorage.setItem(key, value)
setItem(store, key, text) == [store EXCEPT ![key] = Stored(text)]

(******************************* DokanCart **********************************)
\* Array.prototype.find on productId: index of the first match, 0 if none
FindIndex(items, productId) ==
    IF \E i \in 1..Len(items) : JsStrictEq(items[i].productId, productId)
    THEN CHOOSE i \in 1..Len(items) :
            /\ JsStrictEq(items[i].productId, productId)
            /\ \A j \in 1..(i - 1) : ~JsStrictEq(items[j].productId, productId)
    ELSE 0

\* items.filter(item => item.productId !== productId)
FilterOut(items, productId) ==
    SelectSeq(items, LAMBDA item : ~JsStrictEq(item.productId, productId))

loadCart(store) ==
    IF store[CartKey].present THEN JSONparse(store[CartKey].text, CartFields) ELSE <<>>

\* saveCart that keeps the stored rows of the products it does not hold
saveCart_Merges(store, items) ==
    LET held == {items[i].productId : i \in 1..Len(items)}
        kept == IF store[CartKey].present
                THEN SelectSeq(store[CartKey].text,
                               LAMBDA o : o.productId \notin held)
                ELSE <<>>
    IN  setItem(store, CartKey, JSONstringify(items) \o kept)

saveCart(store, items) == setItem(store, CartKey, JSONstringify(items))

\* addToCart without the lookup of an existing item: always a new row
addToCartItems_AlwaysPush(items, productId, productName, price, quantity, image, now) ==
    Append(items, [productId |-> productId, productName |-> productName,
                   price |-> price, quantity |-> quantity,
                   image |-> image, addedAt |-> now])

\* addToCart with = in place of += on an existing item
addToCartItems_Overwrite(items, productId, productName, price, quantity, image, now) ==
    LET i == FindIndex(items, productId) IN
    IF i # 0
    THEN [items EXCEPT ![i].quantity = quantity]
    ELSE Append(items, [productId |-> productId, productName |-> productName,
                        price |-> price, quantity |-> quantity,
                        image |-> image, addedAt |-> now])

\* addToCart that also refreshes the name, price and image of an existing item
addToCartItems_RefreshesData(items, productId, productName, price, quantity, image, now) ==
    LET i == FindIndex(items, productId) IN
    IF i # 0
    THEN [items EXCEPT ![i].quantity = JsAdd(items[i].quantity, quantity),
                       ![i].productName = productName,
                       ![i].price = price,
                       ![i].image = image]
    ELSE Append(items, [productId |-> productId, productName |-> productName,
                        price |-> price, quantity |-> quantity,
                        image |-> image, addedAt |-> now])

\* the item list after addToCart
addToCartItems(items, productId, productName, price, quantity, image, now) ==
    LET i == FindIndex(items, productId) IN
    IF i # 0
    THEN [items EXCEPT ![i].quantity = JsAdd(items[i].quantity, quantity)]
    ELSE Append(items, [productId |-> productId, productName |-> productName,
                        price |-> price, quantity |-> quantity,
                        image |-> image, addedAt |-> now])

\* removeFromCart with === in place of !== in the filter
removeFromCartItems_KeepsMatch(items, productId) ==
    SelectSeq(items, LAMBDA item : JsStrictEq(item.productId, productId))

removeFromCartItems(items, productId) == FilterOut(items, productId)

\* updateQuantity without the quantity <= 0 branch
updateQuantityItems_NoRemove(items, productId, quantity) ==
    LET i == FindIndex(items, productId) IN
    IF i # 0 THEN [items EXCEPT ![i].quantity = quantity] ELSE items

\* the item list after updateQuantity
updateQuantityItems(items, productId, quantity) ==
    LET i == FindIndex(items, productId) IN
    IF i # 0
    THEN LET set == [items EXCEPT ![i].quantity = quantity] IN
         IF JsLeq(set[i].quantity, Num(0))
         THEN removeFromCartItems(set, productId)
         ELSE set
    ELSE items

RECURSIVE ReduceTotal(_, _)
ReduceTotal(items, total) ==
    IF items = <<>> THEN total
    ELSE ReduceTotal(Tail(items), JsAdd(total, Head(items).quantity))

CartGetTotalItems(items) == ReduceTotal(items, Num(0))

RECURSIVE ReduceSubtotal(_, _)
ReduceSubtotal(items, total) ==
    IF items = <<>> THEN total
    ELSE ReduceSubtotal(Tail(items),
                        JsAdd(total, JsMul(Head(items).price, Head(items).quantity)))

\* getSubtotal that adds up the prices and leaves the quantities out
RECURSIVE ReducePrices(_, _)
ReducePrices(items, total) ==
    IF items = <<>> THEN total
    ELSE ReducePrices(Tail(items), JsAdd(total, Head(items).price))

getSubtotal_PriceOnly(items) == ReducePrices(items, Num(0))

getSubtotal(items) == ReduceSubtotal(items, Num(0))

(***************************** DokanWishlist ********************************)
loadWishlist(store) ==
    IF store[WishlistKey].present
    THEN JSONparse(store[WishlistKey].text, WishlistFields)
    ELSE <<>>

\* saveWishlist written to the key of the cart
saveWishlist_CartKey(store, items) == setItem(store, CartKey, JSONstringify(items))

saveWishlist(store, items) == setItem(store, WishlistKey, JSONstringify(items))

\* isInWishlist that looks at the first entry only
isInWishlist_FirstOnly(items, productId) ==
    Len(items) > 0 /\ JsStrictEq(items[1].productId, productId)

isInWishlist(items, productId) ==
    \E i \in 1..Len(items) : JsStrictEq(items[i].productId, productId)

\* the return value of addToWishlist
addToWishlistReturns(items, productId) == FindIndex(items, productId) = 0

\* addToWishlist without the membership test
addToWishlistItems_AlwaysPush(items, productId, productName, price, image, now) ==
    Append(items, [productId |-> productId, productName |-> productName,
                   price |-> price, image |-> image, addedAt |-> now])

\* addToWishlist that looks the entry up by productName
addToWishlistItems_ByName(items, productId, productName, price, image, now) ==
    IF \A i \in 1..Len(items) : ~JsStrictEq(items[i].productName, productName)
    THEN Append(items, [productId |-> productId, productName |-> productName,
                        price |-> price, image |-> image, addedAt |-> now])
    ELSE items

\* the item list after addToWishlist
addToWishlistItems(items, productId, productName, price, image, now) ==
    IF FindIndex(items, productId) = 0
    THEN Append(items, [productId |-> productId, productName |-> productName,
                        price |-> price, image |-> image, addedAt |-> now])
    ELSE items

removeFromWishlistItems(items, productId) == FilterOut(items, productId)

WishlistGetTotalItems(items) == Len(items)

(******************************* actions ************************************)
\* the call that made the last step: its name, its productId and quantity
\* arguments, whether it found an item with that productId, and what it
\* returned
Call(op, productId, quantity, found, ret) ==
    [op |-> op, productId |-> productId, quantity |-> quantity,
     found |-> found, ret |-> ret]

\* the remaining arguments of an addToCart call and the clock it read
Args(productName, price, image, now) ==
    [productName |-> productName, price |-> price, image |-> image, now |-> now]

NoArgs == Args(Undefined, Undefined, Undefined, Undefined)

\* quantities are kept in a finite range: a call that would take a row
\* outside it is not made
QtyInRange(items) ==
    \A i \in 1..Len(items) :
        IsNum(items[i].quantity) =>
            /\ items[i].quantity.val >= 0 - 1
            /\ items[i].quantity.val <= MaxQty + 1

Init ==
    /\ storage = [k \in {CartKey, WishlistKey} |-> Absent]
    /\ cartItems = loadCart(storage)
    /\ wishlistItems = loadWishlist(storage)
    /\ lastOp = Call("init", Undefined, Undefined, FALSE, Undefined)
    /\ lastWishOp = [id \in ProductIds |-> "none"]
    /\ lastArgs = NoArgs
    /\ otherCartItems = loadCart(storage)
    /\ cartBadge = JsString(CartGetTotalItems(cartItems))
    /\ wishlistBadge = JsString(Num(WishlistGetTotalItems(wishlistItems)))
    /\ buttons = [b \in Buttons |-> [innerHTML |-> IdleHTML, disabled |-> FALSE]]
    /\ cartTimers = <<>>
    /\ toasts = {}
    /\ toastTimers = <<>>
    /\ searchQuery = <<>>

addToCart(productId, productName, price, quantity, image, now) ==
    /\ QtyInRange(addToCartItems(cartItems, productId, productName, price, quantity, image, now))
    /\ cartItems' = addToCartItems(cartItems, productId, productName, price, quantity, image, now)
    /\ storage' = saveCart(storage, cartItems')
    /\ lastOp' = Call("addToCart", productId, quantity,
                     FindIndex(cartItems, productId) # 0, Undefined)
    /\ lastArgs' = Args(productName, price, image, now)
    /\ UNCHANGED <<wishlistItems, lastWishOp, page, otherCartItems>>

removeFromCart(productId) ==
    /\ cartItems' = removeFromCartItems(cartItems, productId)
    /\ storage' = saveCart(storage, cartItems')
    /\ lastOp' = Call("removeFromCart", productId, Undefined,
                     FindIndex(cartItems, productId) # 0, Undefined)
    /\ lastArgs' = NoArgs
    /\ UNCHANGED <<wishlistItems, lastWishOp, page, otherCartItems>>

\* updateQuantity that saves the cart whether or not it found the item
updateQuantity_AlwaysSaves(productId, quantity) ==
    /\ cartItems' = updateQuantityItems(cartItems, productId, quantity)
    /\ storage' = saveCart(storage, cartItems')
    /\ lastOp' = Call("updateQuantity", productId, quantity,
                     FindIndex(cartItems, productId) # 0, Undefined)
    /\ lastArgs' = NoArgs
    /\ UNCHANGED <<wishlistItems, lastWishOp, page, otherCartItems>>

updateQuantity(productId, quantity) ==
    /\ cartItems' = updateQuantityItems(cartItems, productId, quantity)
    /\ storage' = IF FindIndex(cartItems, productId) # 0
                  THEN saveCart(storage, cartItems')
                  ELSE storage
    /\ lastOp' = Call("updateQuantity", productId, quantity,
                     FindIndex(cartItems, productId) # 0, Undefined)
    /\ lastArgs' = NoArgs
    /\ UNCHANGED <<wishlistItems, lastWishOp, page, otherCartItems>>

clearCart ==
    /\ cartItems' = <<>>
    /\ storage' = saveCart(storage, cartItems')
    /\ lastOp' = Call("clearCart", Undefined, Undefined, FALSE, Undefined)
    /\ lastArgs' = NoArgs
    /\ UNCHANGED <<wishlistItems, lastWishOp, page, otherCartItems>>

\* new DokanCart() on the same storage (the page is loaded again)
NewDokanCart ==
    /\ cartItems' = loadCart(storage)
    /\ lastOp' = Call("newDokanCart", Undefined, Undefined, FALSE, Undefined)
    /\ lastArgs' = NoArgs
    /\ UNCHANGED <<wishlistItems, storage, lastWishOp, page, otherCartItems>>

addToWishlist(productId, productName, price, image, now) ==
    /\ wishlistItems' = addToWishlistItems(wishlistItems, productId, productName, price, image, now)
    /\ storage' = IF addToWishlistReturns(wishlistItems, productId)
                  THEN saveWishlist(storage, wishlistItems')
                  ELSE storage
    /\ lastOp' = Call("addToWishlist", productId, Undefined,
                      FindIndex(wishlistItems, productId) # 0,
                      Bool(addToWishlistReturns(wishlistItems, productId)))
    /\ lastWishOp' = [lastWishOp EXCEPT ![productId] = "add"]
    /\ lastArgs' = NoArgs
    /\ UNCHANGED <<cartItems, page, otherCartItems>>

removeFromWishlist(productId) ==
    /\ wishlistItems' = removeFromWishlistItems(wishlistItems, productId)
    /\ storage' = saveWishlist(storage, wishlistItems')
    /\ lastOp' = Call("removeFromWishlist", productId, Undefined,
                     FindIndex(wishlistItems, productId) # 0, Undefined)
    /\ lastWishOp' = [lastWishOp EXCEPT ![productId] = "remove"]
    /\ lastArgs' = NoArgs
    /\ UNCHANGED <<cartItems, page, otherCartItems>>

\* new DokanWishlist() on the same storage
NewDokanWishlist ==
    /\ wishlistItems' = loadWishlist(storage)
    /\ lastOp' = Call("newDokanWishlist", Undefined, Undefined, FALSE, Undefined)
    /\ lastArgs' = NoArgs
    /\ UNCHANGED <<cartItems, storage, lastWishOp, page, otherCartItems>>

(******************************* DokanStore *********************************)
\* parseFloat of a data attribute: the number it spells, NaN when the
\* attribute is missing or spells none
parseFloat(v) ==
    IF v.type # "string" THEN NaN
    ELSE CASE v.val = "2" -> Num(2)
           [] v.val = "3" -> Num(3)
           [] v.val = "5" -> Num(5)
           [] OTHER -> NaN

\* a || b on a data attribute
JsOr(a, b) == IF a = Undefined \/ a = Str("") THEN b ELSE a

RECURSIVE TrimStart(_)
TrimStart(q) ==
    IF q # <<>> /\ Head(q) \in Whitespace THEN TrimStart(Tail(q)) ELSE q

RECURSIVE TrimEnd(_)
TrimEnd(q) ==
    IF q # <<>> /\ q[Len(q)] \in Whitespace
    THEN TrimEnd(SubSeq(q, 1, Len(q) - 1))
    ELSE q

\* String.prototype.trim
Trim(q) == TrimEnd(TrimStart(q))

\* updateCartDisplay with the number of rows in place of getTotalItems()
updateCartDisplay_CountsRows(items) == JsString(Num(Len(items)))

\* the text updateCartDisplay writes into the .cart-count elements
updateCartDisplay(items) == JsString(CartGetTotalItems(items))

\* the text updateWishlistDisplay writes into the .wishlist-count elements
updateWishlistDisplay(items) == JsString(Num(WishlistGetTotalItems(items)))

\* the notification elements are told apart by a number: a new one takes the
\* least number no element in the body and no pending timer holds
ToastIds == 1..MaxToasts

HeldToastIds == {t.id : t \in toasts} \cup {toastTimers[i] : i \in 1..Len(toastTimers)}

CanShowToast == ToastIds \ HeldToastIds # {}

NewToastId == CHOOSE id \in ToastIds \ HeldToastIds :
                 \A other \in ToastIds \ HeldToastIds : id <= other

\* showToast: the element appended to the body and its timer set
showToast(message, type) ==
    /\ CanShowToast
    /\ toasts' = toasts \cup {[id |-> NewToastId, message |-> message, type |-> type]}
    /\ toastTimers' = Append(toastTimers, NewToastId)

\* a timer callback that removes every notification in the body
ToastTimerFires_RemovesAll ==
    /\ toastTimers # <<>>
    /\ toasts' = {}
    /\ toastTimers' = Tail(toastTimers)
    /\ lastOp' = Call("toastTimer", Undefined, Undefined, FALSE, Undefined)
    /\ lastArgs' = NoArgs
    /\ UNCHANGED <<cartItems, wishlistItems, storage, lastWishOp, cartBadge,
                   wishlistBadge, buttons, cartTimers, searchQuery, otherCartItems>>

\* the callback of a showToast timer: toast.remove()
ToastTimerFires ==
    /\ toastTimers # <<>>
    /\ toasts' = {t \in toasts : t.id # Head(toastTimers)}
    /\ toastTimers' = Tail(toastTimers)
    /\ lastOp' = Call("toastTimer", Undefined, Undefined, FALSE, Undefined)
    /\ lastArgs' = NoArgs
    /\ UNCHANGED <<cartItems, wishlistItems, storage, lastWishOp, cartBadge,
                   wishlistBadge, buttons, cartTimers, searchQuery, otherCartItems>>

\* the btn-close of a notification is clicked: the alert is removed
dismissToast(id) ==
    /\ \E t \in toasts : t.id = id
    /\ toasts' = {t \in toasts : t.id # id}
    /\ lastOp' = Call("dismissToast", Undefined, Undefined, FALSE, Undefined)
    /\ lastArgs' = NoArgs
    /\ UNCHANGED <<cartItems, wishlistItems, storage, lastWishOp, cartBadge,
                   wishlistBadge, buttons, cartTimers, toastTimers, searchQuery,
                   otherCartItems>>

\* handleAddToCart that returns at once on a button still loading
handleAddToCart_SkipsDisabled(b) ==
    LET productId == Dataset[b].productId
        productName == Dataset[b].productName
        price == parseFloat(Dataset[b].price)
        image == JsOr(Dataset[b].image, Str(""))
        added == addToCartItems(cartItems, productId, productName, price,
                                Num(1), image, PageClock)
    IN  /\ lastOp' = Call("handleAddToCart", productId, Num(1),
                         FindIndex(cartItems, productId) # 0, Undefined)
        /\ lastArgs' = Args(productName, price, image, PageClock)
        /\ UNCHANGED <<wishlistItems, lastWishOp, cartBadge, wishlistBadge,
                       toasts, toastTimers, searchQuery, otherCartItems>>
        /\ IF buttons[b].disabled
           THEN UNCHANGED <<cartItems, storage, buttons, cartTimers>>
           ELSE /\ Len(cartTimers) < MaxPending
                /\ QtyInRange(added)
                /\ cartItems' = added
                /\ storage' = saveCart(storage, cartItems')
                /\ buttons' = [buttons EXCEPT ![b] = [innerHTML |-> LoadingHTML,
                                                       disabled |-> TRUE]]
                /\ cartTimers' = Append(cartTimers, [button |-> b,
                                                     originalHTML |-> buttons[b].innerHTML])

\* handleAddToCart on a button
handleAddToCart(b) ==
    LET productId == Dataset[b].productId
        productName == Dataset[b].productName
        price == parseFloat(Dataset[b].price)
        image == JsOr(Dataset[b].image, Str(""))
        added == addToCartItems(cartItems, productId, productName, price,
                                Num(1), image, PageClock)
    IN  /\ Len(cartTimers) < MaxPending
        /\ QtyInRange(added)
        /\ cartItems' = added
        /\ storage' = saveCart(storage, cartItems')
        /\ buttons' = [buttons EXCEPT ![b] = [innerHTML |-> LoadingHTML,
                                               disabled |-> TRUE]]
        /\ cartTimers' = Append(cartTimers, [button |-> b,
                                             originalHTML |-> buttons[b].innerHTML])
        /\ lastOp' = Call("handleAddToCart", productId, Num(1),
                         FindIndex(cartItems, productId) # 0, Undefined)
        /\ lastArgs' = Args(productName, price, image, PageClock)
        /\ UNCHANGED <<wishlistItems, lastWishOp, cartBadge, wishlistBadge,
                       toasts, toastTimers, searchQuery, otherCartItems>>

\* the callback of a handleAddToCart timer; timers of one delay fire in the
\* order they were set
CartTimerFires ==
    /\ cartTimers # <<>>
    /\ buttons' = [buttons EXCEPT ![Head(cartTimers).button] =
                      [innerHTML |-> Head(cartTimers).originalHTML,
                       disabled |-> FALSE]]
    /\ cartBadge' = updateCartDisplay(cartItems)
    /\ cartTimers' = Tail(cartTimers)
    /\ lastOp' = Call("cartTimer", Undefined, Undefined, FALSE, Undefined)
    /\ lastArgs' = NoArgs
    /\ UNCHANGED <<cartItems, wishlistItems, storage, lastWishOp, wishlistBadge,
                   toasts, toastTimers, searchQuery, otherCartItems>>

\* the global addToWishlist without the call of updateWishlistDisplay
globalAddToWishlist_NoRefresh(productId) ==
    /\ wishlistItems' = addToWishlistItems(wishlistItems, productId, Undefined,
                                           Undefined, Str(""), PageClock)
    /\ storage' = IF addToWishlistReturns(wishlistItems, productId)
                  THEN saveWishlist(storage, wishlistItems')
                  ELSE storage
    /\ IF addToWishlistReturns(wishlistItems, productId)
       THEN showToast(Str("Product added to wishlist!"), Str("success"))
       ELSE showToast(Str("Product already in wishlist"), Str("info"))
    /\ lastOp' = Call("globalAddToWishlist", productId, Undefined,
                     FindIndex(wishlistItems, productId) # 0,
                     Bool(addToWishlistReturns(wishlistItems, productId)))
    /\ lastWishOp' = [lastWishOp EXCEPT ![productId] = "add"]
    /\ lastArgs' = NoArgs
    /\ UNCHANGED <<cartItems, cartBadge, wishlistBadge, buttons, cartTimers,
                   searchQuery, otherCartItems>>

\* the global function addToWishlist(productId): the name, the price and the
\* image are not passed
globalAddToWishlist(productId) ==
    /\ wishlistItems' = addToWishlistItems(wishlistItems, productId, Undefined,
                                           Undefined, Str(""), PageClock)
    /\ storage' = IF addToWishlistReturns(wishlistItems, productId)
                  THEN saveWishlist(storage, wishlistItems')
                  ELSE storage
    /\ IF addToWishlistReturns(wishlistItems, productId)
       THEN /\ showToast(Str("Product added to wishlist!"), Str("success"))
            /\ wishlistBadge' = updateWishlistDisplay(wishlistItems')
       ELSE /\ showToast(Str("Product already in wishlist"), Str("info"))
            /\ UNCHANGED wishlistBadge
    /\ lastOp' = Call("globalAddToWishlist", productId, Undefined,
                     FindIndex(wishlistItems, productId) # 0,
                     Bool(addToWishlistReturns(wishlistItems, productId)))
    /\ lastWishOp' = [lastWishOp EXCEPT ![productId] = "add"]
    /\ lastArgs' = NoArgs
    /\ UNCHANGED <<cartItems, cartBadge, buttons, cartTimers, searchQuery,
                   otherCartItems>>

\* the global function quickView(productId)
quickView(productId) ==
    /\ showToast(Str("Quick view feature coming soon!"), Str("info"))
    /\ lastOp' = Call("quickView", productId, Undefined, FALSE, Undefined)
    /\ lastArgs' = NoArgs
    /\ UNCHANGED <<cartItems, wishlistItems, storage, lastWishOp, cartBadge,
                   wishlistBadge, buttons, cartTimers, searchQuery, otherCartItems>>

\* text is typed into the q input of the search form
typeQuery(q) ==
    /\ searchQuery' = q
    /\ lastOp' = Call("typeQuery", Undefined, Undefined, FALSE, Undefined)
    /\ lastArgs' = NoArgs
    /\ UNCHANGED <<cartItems, wishlistItems, storage, lastWishOp, cartBadge,
                   wishlistBadge, buttons, cartTimers, toasts, toastTimers,
                   otherCartItems>>

\* whether the submit listener calls preventDefault
searchBlocked_NoTrim(q) == q = <<>>

searchBlocked(q) == Trim(q) = <<>>

\* the submit listener of the search form; ret tells whether the default was
\* prevented
SearchSubmit ==
    /\ IF searchBlocked(searchQuery)
       THEN showToast(Str("Please enter a search term"), Str("warning"))
       ELSE UNCHANGED <<toasts, toastTimers>>
    /\ lastOp' = Call("searchSubmit", Undefined, Undefined, FALSE,
                     Bool(searchBlocked(searchQuery)))
    /\ lastArgs' = NoArgs
    /\ UNCHANGED <<cartItems, wishlistItems, storage, lastWishOp, cartBadge,
                   wishlistBadge, buttons, cartTimers, searchQuery, otherCartItems>>

\* DOMContentLoaded of a page load: new DokanStore() on the same storage, with
\* the buttons as the template renders them and nothing pending
PageLoad ==
    /\ cartItems' = loadCart(storage)
    /\ wishlistItems' = loadWishlist(storage)
    /\ cartBadge' = updateCartDisplay(cartItems')
    /\ wishlistBadge' = updateWishlistDisplay(wishlistItems')
    /\ buttons' = [b \in Buttons |-> [innerHTML |-> IdleHTML, disabled |-> FALSE]]
    /\ cartTimers' = <<>>
    /\ toasts' = {}
    /\ toastTimers' = <<>>
    /\ searchQuery' = <<>>
    /\ lastOp' = Call("DOMContentLoaded", Undefined, Undefined, FALSE, Undefined)
    /\ lastArgs' = NoArgs
    /\ UNCHANGED <<storage, lastWishOp, otherCartItems>>

HandleAddToCart == \E b \in Buttons : handleAddToCart(b)

GlobalAddToWishlist == \E id \in ProductIds : globalAddToWishlist(id)

\* the products of the add-to-cart buttons of the page
PageProductIds == {Dataset[b].productId : b \in Buttons}

\* the global addToWishlist called from the markup of a product of the page
WishlistButtonClicked == \E id \in PageProductIds : globalAddToWishlist(id)

QuickView == \E id \in ProductIds : quickView(id)

DismissToast == \E id \in ToastIds : dismissToast(id)

TypeQuery == \E q \in Queries : typeQuery(q)

\* addToCart of the DokanCart of the other page
otherAddToCart(productId, productName, price, quantity, image, now) ==
    /\ QtyInRange(addToCartItems(otherCartItems, productId, productName, price,
                                 quantity, image, now))
    /\ otherCartItems' = addToCartItems(otherCartItems, productId, productName,
                                        price, quantity, image, now)
    /\ storage' = saveCart(storage, otherCartItems')
    /\ lastOp' = Call("other.addToCart", productId, quantity,
                     FindIndex(otherCartItems, productId) # 0, Undefined)
    /\ lastArgs' = Args(productName, price, image, now)
    /\ UNCHANGED <<cartItems, wishlistItems, lastWishOp, page>>

\* removeFromCart of the DokanCart of the other page
otherRemoveFromCart(productId) ==
    /\ otherCartItems' = removeFromCartItems(otherCartItems, productId)
    /\ storage' = saveCart(storage, otherCartItems')
    /\ lastOp' = Call("other.removeFromCart", productId, Undefined,
                     FindIndex(otherCartItems, productId) # 0, Undefined)
    /\ lastArgs' = NoArgs
    /\ UNCHANGED <<cartItems, wishlistItems, lastWishOp, page>>

\* new DokanCart() of the other page, on the same storage
OtherNewDokanCart ==
    /\ otherCartItems' = loadCart(storage)
    /\ lastOp' = Call("other.newDokanCart", Undefined, Undefined, FALSE, Undefined)
    /\ lastArgs' = NoArgs
    /\ UNCHANGED <<cartItems, wishlistItems, storage, lastWishOp, page>>

\* the calls the add-to-cart buttons make: one unit of a product
UnitCalls == {c \in CartCalls : c.now = PageClock}

AddOneToCart ==
    \E c \in UnitCalls :
        addToCart(c.productId, c.productName, c.price, Num(1), c.image, c.now)

OtherAddOneToCart ==
    \E c \in UnitCalls :
        otherAddToCart(c.productId, c.productName, c.price, Num(1), c.image, c.now)

OtherRemoveFromCart == \E c \in UnitCalls : otherRemoveFromCart(c.productId)

AddToCart ==
    \E c \in CartCalls, q \in QtyArgs :
        addToCart(c.productId, c.productName, c.price, Num(q), c.image, c.now)

RemoveFromCart == \E id \in ProductIds : removeFromCart(id)

UpdateQuantity == \E id \in ProductIds, q \in QtyArgs : updateQuantity(id, Num(q))

ClearCart == clearCart

AddToWishlist ==
    \E c \in WishlistCalls :
        addToWishlist(c.productId, c.productName, c.price, c.image, c.now)

RemoveFromWishlist == \E id \in ProductIds : removeFromWishlist(id)

NextCart ==
    \/ AddToCart
    \/ RemoveFromCart
    \/ UpdateQuantity
    \/ ClearCart
    \/ NewDokanCart

NextWishlist ==
    \/ AddToWishlist
    \/ RemoveFromWishlist
    \/ NewDokanWishlist

SpecCart == Init /\ [][NextCart]_vars

SpecWishlist == Init /\ [][NextWishlist]_vars

\* the add-to-cart buttons of a page and their timers
NextButtons ==
    \/ HandleAddToCart
    \/ CartTimerFires
    \/ PageLoad

SpecButtons == Init /\ [][NextButtons]_vars

\* timers always fire unless the page unloads first
SpecButtonsFair == SpecButtons /\ WF_vars(CartTimerFires)

\* the wishlist entry point of a page
NextWishlistPage ==
    \/ GlobalAddToWishlist
    \/ ToastTimerFires
    \/ DismissToast
    \/ PageLoad

SpecWishlistPage == Init /\ [][NextWishlistPage]_vars

\* the notifications of a page
NextToasts ==
    \/ QuickView
    \/ GlobalAddToWishlist
    \/ ToastTimerFires
    \/ DismissToast

SpecToasts == Init /\ [][NextToasts]_vars /\ WF_vars(ToastTimerFires)

\* the cart and the wishlist of one page, through the page's entry points and
\* through their own methods, in the time before the timers of the page fire
NextIsolation ==
    \/ HandleAddToCart
    \/ RemoveFromCart
    \/ UpdateQuantity
    \/ ClearCart
    \/ WishlistButtonClicked
    \/ RemoveFromWishlist

SpecIsolation == Init /\ [][NextIsolation]_vars

\* two pages of one origin, each with its DokanCart on dokan_cart
NextTwoCarts ==
    \/ AddOneToCart
    \/ RemoveFromCart
    \/ NewDokanCart
    \/ OtherAddOneToCart
    \/ OtherRemoveFromCart
    \/ OtherNewDokanCart

SpecTwoCarts == Init /\ [][NextTwoCarts]_vars

\* the search form of a page whose wishlist holds entries
NextSearch ==
    \/ TypeQuery
    \/ SearchSubmit
    \/ ToastTimerFires
    \/ DismissToast
    \/ AddToWishlist

SpecSearch == Init /\ [][NextSearch]_vars

(******************************* properties *********************************)
\* the rows of a list that carry a productId
Rows(items, productId) == {i \in 1..Len(items) : items[i].productId = productId}

\* the objects of the text stored under a key, none when the key is absent
StoredText(key) == IF storage[key].present THEN storage[key].text ELSE <<>>

RECURSIVE SumOver(_, _)
\* the sum of f over the finite set S
SumOver(f, S) ==
    IF S = {} THEN 0
    ELSE LET x == CHOOSE y \in S : TRUE IN f[x] + SumOver(f, S \ {x})

\* C1: after any sequence of addToCart, removeFromCart, updateQuantity and
\* clearCart calls from an absent dokan_cart key, the cart holds at most one
\* LineItem per productId.
CartOneRowPerProduct ==
    \A id \in ProductIds : Cardinality(Rows(cartItems, id)) <= 1

\* addToCart has been called on a productId already in a cart of three rows
CartRepeatedAddReached ==
    /\ lastOp.op = "addToCart"
    /\ lastOp.found
    /\ Len(cartItems) = 3

\* C2: every LineItem in the cart, in memory and in the stored text, has
\* quantity >= 1, whatever quantities addToCart and updateQuantity were given.
CartQuantityAtLeastOne ==
    /\ \A i \in 1..Len(cartItems) : JsLeq(Num(1), cartItems[i].quantity)
    /\ \A i \in 1..Len(StoredText(CartKey)) :
          JsLeq(Num(1), StoredText(CartKey)[i].quantity)

\* C3: a new instance constructed on the same key holds an item sequence equal
\* to the one in memory, for the cart and for the wishlist.
RoundTripEqual ==
    /\ loadCart(storage) = cartItems
    /\ loadWishlist(storage) = wishlistItems

\* C4: addToCart on a productId already present adds the given quantity to
\* that one row and adds no row; on an absent productId it appends one row at
\* the end; so two adds of q1 and q2 give one row of q1+q2.
AddToCartMergesRows ==
    [][lastOp'.op = "addToCart" =>
        LET id == lastOp'.productId
            q == lastOp'.quantity.val
        IN  IF Rows(cartItems, id) # {}
            THEN /\ Len(cartItems') = Len(cartItems)
                 /\ Rows(cartItems', id) = Rows(cartItems, id)
                 /\ Cardinality(Rows(cartItems', id)) = 1
                 /\ \A i \in Rows(cartItems, id) :
                       cartItems'[i].quantity = Num(cartItems[i].quantity.val + q)
            ELSE /\ Len(cartItems') = Len(cartItems) + 1
                 /\ SubSeq(cartItems', 1, Len(cartItems)) = cartItems
                 /\ cartItems'[Len(cartItems')].productId = id
                 /\ cartItems'[Len(cartItems')].quantity = Num(q)
    ]_vars

\* a second addToCart of quantity 1 has taken a row of quantity 1 to 2
CartSecondAddReached ==
    /\ lastOp.op = "addToCart"
    /\ lastOp.found
    /\ lastOp.quantity = Num(1)
    /\ \E i \in Rows(cartItems, lastOp.productId) : cartItems[i].quantity = Num(2)

\* C5: updateQuantity(id, q) on a productId in the cart: with q <= 0 the row
\* is gone from memory and from the stored text, getTotalItems() no longer
\* counts it and no quantity <= 0 is stored for it; with q >= 1 the row's
\* quantity is q, in memory and in the stored text.
UpdateQuantitySetsOrRemoves ==
    [][(lastOp'.op = "updateQuantity" /\ Rows(cartItems, lastOp'.productId) # {}) =>
        LET id == lastOp'.productId
            q == lastOp'.quantity.val
            text == storage'[CartKey].text
        IN  /\ storage'[CartKey].present
            /\ Len(text) = Len(cartItems')
            /\ \A j \in 1..Len(text) :
                  text[j].productId = id => text[j].quantity.val >= 1
            /\ IF q <= 0
               THEN /\ Rows(cartItems', id) = {}
                    /\ \A j \in 1..Len(text) : text[j].productId # id
                    /\ \A i \in Rows(cartItems, id) :
                          CartGetTotalItems(cartItems') =
                             Num(CartGetTotalItems(cartItems).val - cartItems[i].quantity.val)
               ELSE /\ Rows(cartItems', id) = Rows(cartItems, id)
                    /\ \A i \in Rows(cartItems', id) :
                          /\ cartItems'[i].quantity = Num(q)
                          /\ text[i].productId = id
                          /\ text[i].quantity = Num(q)
    ]_vars

\* updateQuantity with quantity 0 has removed a row and left two others
UpdateToZeroReached ==
    /\ lastOp.op = "updateQuantity"
    /\ lastOp.found
    /\ lastOp.quantity = Num(0)
    /\ Len(cartItems) = 2

\* C6: addToWishlist returns true and appends and stores exactly one entry
\* when the productId is not in the wishlist, and returns false leaving the
\* items, their order and the stored value as they were when it is.
AddToWishlistOnceOnly ==
    [][lastOp'.op = "addToWishlist" =>
        LET id == lastOp'.productId IN
        IF Rows(wishlistItems, id) = {}
        THEN /\ lastOp'.ret = Bool(TRUE)
             /\ Len(wishlistItems') = Len(wishlistItems) + 1
             /\ SubSeq(wishlistItems', 1, Len(wishlistItems)) = wishlistItems
             /\ wishlistItems'[Len(wishlistItems')].productId = id
             /\ loadWishlist(storage') = wishlistItems'
        ELSE /\ lastOp'.ret = Bool(FALSE)
             /\ wishlistItems' = wishlistItems
             /\ storage' = storage
    ]_vars

\* addToWishlist has returned false on a wishlist of two entries
WishlistDuplicateAddReached ==
    /\ lastOp.op = "addToWishlist"
    /\ lastOp.ret = Bool(FALSE)
    /\ Len(wishlistItems) = 2

\* C7: the wishlist holds at most one entry per productId, so getTotalItems()
\* is the number of productIds for which isInWishlist is true.
WishlistOneEntryPerProduct ==
    /\ \A id \in ProductIds : Cardinality(Rows(wishlistItems, id)) <= 1
    /\ WishlistGetTotalItems(wishlistItems) =
          Cardinality({id \in ProductIds : isInWishlist(wishlistItems, id)})

\* a wishlist of two entries on which a further add of one of them and a
\* remove have been made
WishlistTwoEntriesReached ==
    /\ Len(wishlistItems) = 2
    /\ lastOp.op = "addToWishlist"
    /\ lastOp.found
    /\ \E id \in ProductIds : lastWishOp[id] = "remove"

\* C8: isInWishlist(id) is true exactly when the most recent addToWishlist or
\* removeFromWishlist call on id was an add, and a call on another id does not
\* change it.
WishlistMembershipFollowsHistory ==
    /\ [](\A id \in ProductIds :
            isInWishlist(wishlistItems, id) <=> lastWishOp[id] = "add")
    /\ [][\A id \in ProductIds :
            lastOp'.productId # id =>
               (isInWishlist(wishlistItems', id) <=> isInWishlist(wishlistItems, id))
       ]_vars

\* add, add again, then remove of one productId, with two others in the list
WishlistAddAddRemoveReached ==
    /\ lastOp.op = "removeFromWishlist"
    /\ lastOp.found
    /\ ~isInWishlist(wishlistItems, lastOp.productId)
    /\ Len(wishlistItems) = 2

\* C9: with integer prices and quantities getSubtotal() is the sum of
\* price*quantity over the rows and getTotalItems() the sum of the
\* quantities, both 0 for the empty cart.
CartTotalsAreSums ==
    (\A i \in 1..Len(cartItems) :
        IsNum(cartItems[i].price) /\ IsNum(cartItems[i].quantity)) =>
    /\ getSubtotal(cartItems) =
          Num(SumOver([i \in 1..Len(cartItems) |->
                          cartItems[i].price.val * cartItems[i].quantity.val],
                      1..Len(cartItems)))
    /\ CartGetTotalItems(cartItems) =
          Num(SumOver([i \in 1..Len(cartItems) |-> cartItems[i].quantity.val],
                      1..Len(cartItems)))
    /\ (cartItems = <<>> =>
          getSubtotal(cartItems) = Num(0) /\ CartGetTotalItems(cartItems) = Num(0))

\* the same productId added with quantity 1 and then 2: count 3, subtotal 3p
CartOneThenTwoReached ==
    /\ lastOp.op = "addToCart"
    /\ lastOp.found
    /\ lastOp.quantity = Num(2)
    /\ Len(cartItems) = 1
    /\ cartItems[1].price = Num(2)
    /\ CartGetTotalItems(cartItems) = Num(3)
    /\ getSubtotal(cartItems) = Num(6)

\* C10: removeFromCart(id) leaves no row with that productId in memory or in
\* the stored text, keeps every other row with its fields and in the same
\* relative order, and leaves the list as it was when id is absent.
RemoveFromCartDropsOnlyThatProduct ==
    [][lastOp'.op = "removeFromCart" =>
        LET id == lastOp'.productId
            keep == {i \in 1..Len(cartItems) : cartItems[i].productId # id}
            text == storage'[CartKey].text
        IN  /\ Rows(cartItems', id) = {}
            /\ Len(cartItems') = Cardinality(keep)
            /\ \A k \in 1..Len(cartItems') :
                  cartItems'[k] =
                     cartItems[CHOOSE i \in keep :
                                  Cardinality({j \in keep : j <= i}) = k]
            /\ (Rows(cartItems, id) = {} => cartItems' = cartItems)
            /\ storage'[CartKey].present
            /\ Len(text) = Len(cartItems')
            /\ \A j \in 1..Len(text) :
                  /\ text[j].productId # id
                  /\ text[j].productId = cartItems'[j].productId
                  /\ text[j].quantity = cartItems'[j].quantity
    ]_vars

\* removeFromCart has taken one row out of three
RemoveOneOfThreeReached ==
    /\ lastOp.op = "removeFromCart"
    /\ lastOp.found
    /\ Len(cartItems) = 2

\* C17: updateQuantity(id, q) on a productId that is not in the cart changes
\* neither the items in memory nor the stored dokan_cart value, which stays
\* absent if it was never written, and creates no item.
UpdateQuantityAbsentIsNoOp ==
    [][(lastOp'.op = "updateQuantity" /\ Rows(cartItems, lastOp'.productId) = {}) =>
        /\ cartItems' = cartItems
        /\ storage' = storage
        /\ Rows(cartItems', lastOp'.productId) = {}
    ]_vars

\* updateQuantity has been called on an empty cart whose key was never written
UpdateOnNeverWrittenReached ==
    /\ lastOp.op = "updateQuantity"
    /\ ~lastOp.found
    /\ lastOp.quantity = Num(2)
    /\ cartItems = <<>>
    /\ ~storage[CartKey].present

\* C19: addToCart on a productId already in the cart changes that row's
\* quantity only: the row keeps its position, productName, price, image and
\* addedAt whatever the call passes, every other row is unchanged, and the
\* subtotal grows by the recorded price times the added quantity.
AddToCartKeepsRecordedData ==
    [][(lastOp'.op = "addToCart" /\ Rows(cartItems, lastOp'.productId) # {}) =>
        /\ Len(cartItems') = Len(cartItems)
        /\ \A i \in 1..Len(cartItems) :
              /\ cartItems'[i].productId = cartItems[i].productId
              /\ cartItems'[i].productName = cartItems[i].productName
              /\ cartItems'[i].price = cartItems[i].price
              /\ cartItems'[i].image = cartItems[i].image
              /\ cartItems'[i].addedAt = cartItems[i].addedAt
              /\ (i \notin Rows(cartItems, lastOp'.productId) =>
                     cartItems'[i] = cartItems[i])
        /\ \A i \in Rows(cartItems, lastOp'.productId) :
              getSubtotal(cartItems') =
                 JsAdd(getSubtotal(cartItems),
                       JsMul(cartItems[i].price, lastOp'.quantity))
    ]_vars

\* a second addToCart on a row passed another name, price and image at
\* another time, and the row still holds what the first call recorded
AddWithOtherDataReached ==
    /\ lastOp.op = "addToCart"
    /\ lastOp.found
    /\ lastOp.quantity = Num(1)
    /\ Len(cartItems) = 2
    /\ \E i \in Rows(cartItems, lastOp.productId) :
          /\ cartItems[i].productName # lastArgs.productName
          /\ cartItems[i].price = Num(2)
          /\ lastArgs.price = Num(5)
          /\ cartItems[i].image # lastArgs.image
          /\ cartItems[i].addedAt # lastArgs.now
          /\ i = 1

\* the notifications a step appends to the body
NewToasts == toasts' \ toasts

\* the sum of the quantities of a list of rows with numeric quantities
QuantitySum(items) ==
    SumOver([i \in 1..Len(items) |-> items[i].quantity.val], 1..Len(items))

\* the text that shows a natural number below ten
Shows(n) == Str(<<"0", "1", "2", "3", "4", "5", "6", "7", "8", "9">>[n + 1])

\* C11: the global addToWishlist(productId) adds the entry, raises a success
\* notification and shows the new count in the wishlist badge when the id is
\* not in the wishlist, and raises the 'already in wishlist' notification and
\* leaves items, storage and badge unchanged when it is; so the badge always
\* equals wishlist.getTotalItems().
GlobalAddToWishlistKeepsBadge ==
    /\ [](wishlistBadge = Shows(Len(wishlistItems)))
    /\ [][lastOp'.op = "globalAddToWishlist" =>
            IF Rows(wishlistItems, lastOp'.productId) = {}
            THEN /\ Len(wishlistItems') = Len(wishlistItems) + 1
                 /\ SubSeq(wishlistItems', 1, Len(wishlistItems)) = wishlistItems
                 /\ wishlistItems'[Len(wishlistItems')].productId = lastOp'.productId
                 /\ Cardinality(NewToasts) = 1
                 /\ \A t \in NewToasts : t.type = Str("success")
                 /\ wishlistBadge' = Shows(Len(wishlistItems) + 1)
            ELSE /\ Cardinality(NewToasts) = 1
                 /\ \A t \in NewToasts :
                       t.message = Str("Product already in wishlist")
                 /\ wishlistItems' = wishlistItems
                 /\ storage' = storage
                 /\ wishlistBadge' = wishlistBadge
       ]_vars

\* the global addToWishlist has been called on an id already in a wishlist of
\* two entries
GlobalDuplicateAddReached ==
    /\ lastOp.op = "globalAddToWishlist"
    /\ lastOp.ret = Bool(FALSE)
    /\ Len(wishlistItems) = 2
    /\ wishlistBadge = Str("2")
    /\ \E t \in toasts : t.message = Str("Product already in wishlist")

\* C12: once every pending handleAddToCart timer has fired, each button is
\* enabled and shows the content it had before the first trigger.
ButtonsIdleWhenNoTimerPending ==
    cartTimers = <<>> =>
        \A b \in Buttons : buttons[b] = [innerHTML |-> IdleHTML, disabled |-> FALSE]

\* C13: whenever no handleAddToCart timer is pending the cart badge shows
\* cart.getTotalItems(), and every add-to-cart trigger is eventually followed
\* by a state in which the badge shows the count.
CartBadgeFollowsCart ==
    /\ [](cartTimers = <<>> => cartBadge = Shows(QuantitySum(cartItems)))
    /\ (lastOp.op = "handleAddToCart") ~> (cartBadge = Shows(QuantitySum(cartItems)))

\* three triggers made, every timer fired, and the badge shows 3
BadgeCaughtUpReached ==
    /\ lastOp.op = "cartTimer"
    /\ cartTimers = <<>>
    /\ Len(cartItems) = 2
    /\ cartBadge = Str("3")

\* C14: each add-to-cart trigger adds one unit of the button's product at
\* once, whatever the loading state of the button and the timers pending:
\* getTotalItems() grows by one and the stored cart holds the addition before
\* the trigger's timer fires.
TriggerAddsOneUnitAtOnce ==
    [][lastOp'.op = "handleAddToCart" =>
        LET id == lastOp'.productId
            text == storage'[CartKey].text
        IN  /\ QuantitySum(cartItems') = QuantitySum(cartItems) + 1
            /\ CartGetTotalItems(cartItems') = Num(QuantitySum(cartItems) + 1)
            /\ Cardinality(Rows(cartItems', id)) = 1
            /\ \A i \in Rows(cartItems', id) :
                  /\ cartItems'[i].quantity.val =
                        IF Rows(cartItems, id) = {} THEN 1
                        ELSE cartItems[i].quantity.val + 1
                  /\ storage'[CartKey].present
                  /\ Len(text) = Len(cartItems')
                  /\ text[i].productId = id
                  /\ text[i].quantity = cartItems'[i].quantity
            /\ Len(cartTimers') = Len(cartTimers) + 1
    ]_vars

\* a second trigger on a button still loading has added its unit: two units
\* stored, both timers pending, the badge not yet refreshed
TriggerOnLoadingButtonReached ==
    /\ lastOp.op = "handleAddToCart"
    /\ Len(cartTimers) = 2
    /\ cartTimers[1].button = cartTimers[2].button
    /\ cartTimers[2].originalHTML = LoadingHTML
    /\ QuantitySum(cartItems) = 2
    /\ QuantitySum(loadCart(storage)) = 2
    /\ cartBadge = Str("0")

\* C15: every notification is eventually removed from the page; a
\* notification is removed only by the timer set for it or by its dismissal,
\* one at a time; and once all timers have fired none remains.
ToastsRemovedByOwnTimer ==
    /\ \A id \in ToastIds :
          (\E t \in toasts : t.id = id) ~> (\A t \in toasts : t.id # id)
    /\ [][/\ Cardinality(toasts \ toasts') <= 1
          /\ \A t \in toasts \ toasts' :
                \/ lastOp'.op = "toastTimer" /\ Head(toastTimers) = t.id
                \/ lastOp'.op = "dismissToast"
       ]_vars
    /\ [](toastTimers = <<>> => toasts = {})

\* a timer has removed its notification and left the other one in the body
ToastTimerLeftOtherReached ==
    /\ lastOp.op = "toastTimer"
    /\ Cardinality(toasts) = 1
    /\ Len(toastTimers) = 1
    /\ \E t \in toasts : t.id = toastTimers[1]

\* C16: a submission of the search form is blocked, with one warning
\* notification raised, exactly when the query is empty or whitespace only;
\* otherwise it is not blocked and raises nothing; cart, wishlist and storage
\* are unchanged either way.
SearchGuardBlocksBlankOnly ==
    [][lastOp'.op = "searchSubmit" =>
        LET blank == \A i \in 1..Len(searchQuery) : searchQuery[i] = " " IN
        /\ lastOp'.ret = Bool(blank)
        /\ IF blank
           THEN /\ Cardinality(NewToasts) = 1
                /\ \A t \in NewToasts : t.type = Str("warning")
                /\ toasts \subseteq toasts'
           ELSE toasts' = toasts /\ toastTimers' = toastTimers
        /\ cartItems' = cartItems
        /\ wishlistItems' = wishlistItems
        /\ storage' = storage
    ]_vars

\* a query of two blanks has been blocked on a page whose wishlist holds entries
BlankQueryBlockedReached ==
    /\ lastOp.op = "searchSubmit"
    /\ lastOp.ret = Bool(TRUE)
    /\ searchQuery = <<" ", " ">>
    /\ Len(wishlistItems) = 2
    /\ \E t \in toasts : t.type = Str("warning")

\* the calls that are operations of the cart, and those of the wishlist
CartOps == {"addToCart", "removeFromCart", "updateQuantity", "clearCart",
            "handleAddToCart"}
WishlistOps == {"addToWishlist", "removeFromWishlist", "globalAddToWishlist"}

\* C18: no cart operation changes the wishlist's items or the dokan_wishlist
\* value, and no wishlist operation changes the cart's items or the
\* dokan_cart value.
CartAndWishlistIsolated ==
    [][/\ lastOp'.op \in CartOps =>
             /\ wishlistItems' = wishlistItems
             /\ storage'[WishlistKey] = storage[WishlistKey]
       /\ lastOp'.op \in WishlistOps =>
             /\ cartItems' = cartItems
             /\ storage'[CartKey] = storage[CartKey]
    ]_vars

\* one productId is in the cart and in the wishlist, both stored, and a
\* wishlist operation on another productId has just been made
SameProductInBothReached ==
    /\ lastOp.op = "globalAddToWishlist"
    /\ lastOp.ret = Bool(TRUE)
    /\ \E id \in ProductIds :
          /\ id # lastOp.productId
          /\ Rows(cartItems, id) # {}
          /\ Rows(wishlistItems, id) # {}
          /\ Rows(loadCart(storage), id) # {}
          /\ Rows(loadWishlist(storage), id) # {}

\* the rows of the stored cart, by productId and quantity
StoredCartRows ==
    [i \in 1..Len(StoredText(CartKey)) |->
        <<StoredText(CartKey)[i].productId, StoredText(CartKey)[i].quantity>>]

\* the rows of a list of items, by productId and quantity
ItemRows(items) == [i \in 1..Len(items) |-> <<items[i].productId, items[i].quantity>>]

\* C20: with two DokanCart instances on the same key, after each mutation the
\* stored dokan_cart value is the item list of the instance that made it:
\* the rows the other instance wrote since are not merged but overwritten.
LastWriterWins ==
    [][/\ lastOp'.op \in {"addToCart", "removeFromCart"} =>
             /\ storage'[CartKey] = Stored(JSONstringify(cartItems'))
             /\ StoredCartRows' = ItemRows(cartItems')
             /\ otherCartItems' = otherCartItems
       /\ lastOp'.op \in {"other.addToCart", "other.removeFromCart"} =>
             /\ storage'[CartKey] = Stored(JSONstringify(otherCartItems'))
             /\ StoredCartRows' = ItemRows(otherCartItems')
             /\ cartItems' = cartItems
    ]_vars

\* the other instance has written after the first one did: a row the first
\* instance holds and had stored is no longer in storage
OtherInstanceOverwroteReached ==
    /\ lastOp.op = "other.addToCart"
    /\ \E id \in ProductIds :
          /\ Rows(cartItems, id) # {}
          /\ Rows(otherCartItems, id) = {}
          /\ Rows(loadCart(storage), id) = {}
    /\ Len(otherCartItems) = 1

=============================================================================
